---- MODULE Spec2Model ----
(***************************************************************************)
(* The cat-shelter controller (PATURA firmware):                           *)
(* src/src/Patura/patura.cpp (setup, loop) over src/src/common/common.cpp  *)
(* (loadBootState, incrementBootAttempt, markBootSuccess, rebootSystem,    *)
(* checkPIRSensor, readDHT22, getEffectiveTemperature,                     *)
(* updateBlanketControl, controlBlanket, takeAndUploadPhoto,               *)
(* checkPhotoSchedule, handleSerialCommands) and                           *)
(* src/src/DFR1154/dfr1154.cpp (loopAwsIot, handleIotCommand).             *)
(*                                                                         *)
(* The program state is the two keys of the "cat-shelter" Preferences      *)
(* namespace (they survive a restart), the globals of common.cpp:495-516   *)
(* (they are re-initialised by every restart), the millisecond counter     *)
(* millis() and the position of the firmware (about to run setup, in setup *)
(* before the camera block, in the main loop). Temperatures are in tenths  *)
(* of a degree Celsius. Wi-Fi management, the status report, the camera    *)
(* configuration and the state of the live-photo stream are outside the    *)
(* state; whether Wi-Fi is connected is an input of each handler.          *)
(* Variables marked "observer" record what a handler did (what it printed, *)
(* what it read) so that properties over several steps can be stated; no   *)
(* statement of the program reads them.                                    *)
(***************************************************************************)
EXTENDS Integers, Sequences, FiniteSets, TLC

VARIABLES
    nvBootAttempts,    \* preferences key "bootAttempts" (NVM)
    nvSafeMode,        \* preferences key "safeMode" (NVM)
    bootAttempts,      \* int bootAttempts            common.cpp:514
    safeMode,          \* bool safeMode               common.cpp:512
    cameraAvailable,   \* bool cameraAvailable        common.cpp:513
    bootStartTime,     \* unsigned long bootStartTime common.cpp:515
    lastSafeModeRecoveryAttempt,  \*                  common.cpp:516
    catPresent,        \* bool catPresent             common.cpp:496
    blanketOn,         \* bool blanketOn (the relay)  common.cpp:497
    relayPin,          \* level of RELAY_PIN; "INPUT": not driven since reset
    blanketManualOverride,  \*                        common.cpp:498
    lastBlanketChange, \* unsigned long               common.cpp:499
    lastMotionDetected,     \* unsigned long          common.cpp:500
    currentTemp,       \* float currentTemp           common.cpp:501
    currentHumidity,   \* float currentHumidity       common.cpp:502
    dhtSensorWorking,  \* bool dhtSensorWorking       common.cpp:504
    lastDHTRead,       \* unsigned long lastDHTRead   common.cpp:503
    lastPhotoTime,     \* unsigned long lastPhotoTime common.cpp:505
    lastHourlyPhotoTime,    \* unsigned long          common.cpp:506
    lastCatPresent,    \* bool lastCatPresent         common.cpp:507
    presenceTimeout,   \* the value CAT_PRESENCE_TIMEOUT has in the build
    now,               \* millis() as the handler that ran last read it
    pc,                \* "boot": restarted, setup not yet run; "camera": setup
                       \* ran up to patura.cpp:53; "loop": setup complete
    quiet,             \* environment: no more power loss, commands or camera faults
    quietInSafeMode,   \* observer: the environment went quiet during a safe mode session
    resetReason,       \* observer: what caused the last restart
    loadedAttempts,    \* observer: bootAttempts as read by loadBootState this boot
    loadedSafeMode,    \* observer: safeMode as read by loadBootState this boot
    camInit,           \* observer: outcome of the camera block of this boot
    camFailRun,        \* observer: restarts "Camera init failed" in a row before this boot
    sessions,          \* observer: how the short sessions in a row before this boot ended
    marked,            \* observer: markBootSuccess() ran since this boot's setup
    uptimeMarks,       \* observer: calls of markBootSuccess() by the uptime check since boot
    manualSafe,        \* observer: the safemode command ran since nvSafeMode was last false
    photos,            \* observer: the calls of takeAndUploadPhoto() by the last handler
    effectiveTemp,     \* observer: effectiveTemp of the last automatic updateBlanketControl()
    shouldBeOn,        \* observer: shouldBeOn of the last automatic updateBlanketControl()
    clock,             \* observer: time(nullptr) as the last loop pass read it
    lastPulse,         \* observer: millis() of the last pass that read the PIR pin HIGH, 0: none
    passes,            \* observer: loop passes of this session, where the model counts them
    millis,            \* millis() as the last call of a timer class read it (32 bits)
    retry,             \* a BackOffRetry object         common.h:89-139
    cameraAction,      \* DebounceTimer cameraAction    camera.cpp:21
    timerObs,          \* observer: what the calls of the timer classes returned
    wifi               \* _wifiState, wifiConnected, hasSNTPTime   part_003:27-36

bootVars == <<nvBootAttempts, nvSafeMode, bootAttempts, safeMode, cameraAvailable,
              bootStartTime, lastSafeModeRecoveryAttempt>>
controlVars == <<catPresent, blanketOn, relayPin, blanketManualOverride,
                 lastBlanketChange,
                 lastMotionDetected, currentTemp, currentHumidity,
                 dhtSensorWorking, lastDHTRead,
                 lastPhotoTime, lastHourlyPhotoTime, lastCatPresent>>
observerVars == <<quietInSafeMode, resetReason, loadedAttempts, loadedSafeMode,
                  camInit, camFailRun, sessions, marked, uptimeMarks, manualSafe,
                  photos, effectiveTemp, shouldBeOn, clock, lastPulse, passes>>
timerVars == <<millis, retry, cameraAction, timerObs, wifi>>
vars == <<bootVars, controlVars, observerVars, presenceTimeout, now, pc, quiet,
          timerVars>>

----------------------------------------------------------------------------
(* Program constants (src/include/common.h). *)
MAX_BOOT_ATTEMPTS == 3
BOOT_SUCCESS_TIMEOUT == 300000
SAFE_MODE_RECOVERY_INTERVAL == 3600000
DHT_READ_INTERVAL == 2000
PHOTO_HOURLY_INTERVAL == 600000
PHOTO_MOTION_COOLDOWN == 60000
BLANKET_MIN_STATE_TIME == 300000
CAT_PRESENCE_TIMEOUT == 3600000
TEMP_COLD_THRESHOLD == 130
TEMP_MAX_REASONABLE == 450
TEMP_MIN_REASONABLE == -300
SetupDelay == 1000

(* const float WINTER_TEMP_TABLE[24], common.cpp:96-121; entry h is at     *)
(* position h + 1.                                                         *)
WINTER_TEMP_TABLE_MildAfternoon ==
    <<-20, -30, -35, -40, -35, -30, -20, -10, 0, 20, 40, 60,
      70, 130, 70, 60, 40, 20, 10, 0, -10, -15, -20, -20>>
WINTER_TEMP_TABLE ==
    <<-20, -30, -35, -40, -35, -30, -20, -10, 0, 20, 40, 60,
      70, 80, 70, 60, 40, 20, 10, 0, -10, -15, -20, -20>>
Hours == 0..23

(* Bounds of the model. *)
TickUnit == 300000       \* granularity of the time between two loop passes (ms)
MaxUptimeUnits == 3      \* a session not in safe mode is followed for this many units
MaxBootCount == 4        \* restarts without markBootSuccess() are followed up to this count

(* The time from one loop pass to the next: delay(100) plus whatever       *)
(* blocks in between (uploads, Wi-Fi connect, the "wifi strength" monitor),*)
(* in the model's granularity. What setup does after line 45 takes less    *)
(* than one unit.                                                          *)
LongPass == 6
TickDeltas == {TickUnit, LongPass * TickUnit}
MaxDelta == LongPass * TickUnit
MaxMillis == SetupDelay + MaxUptimeUnits * TickUnit
MaxSafeMillis == MaxMillis + SAFE_MODE_RECOVERY_INTERVAL + 2 * MaxDelta

(* Unsigned 32-bit subtraction, as in (currentMillis - bootStartTime):    *)
(* a - b when a >= b, and 2^32 - (b - a) otherwise. The model checker's    *)
(* integers end at 2^31 - 1; a wrapped difference with b - a <= 2^31 is at *)
(* least 2^31, above every timeout it is compared with, and is given as    *)
(* 2^31 - 1. A timestamp that setup computes below 0 (millis() - 61000,    *)
(* patura.cpp:49) is kept as the negative number it is congruent to, so    *)
(* that a - b is the difference the program computes.                      *)
Sub32(a, b) == IF a >= b THEN a - b ELSE 2147483647

----------------------------------------------------------------------------
(* Lines on the serial console. *)
MsgBootSuccessful == "Boot successful - resetting boot counter"
MsgSafeModeActive == "SAFE MODE is active from previous boot failures"
MsgMaxAttempts == "!!! MAX BOOT ATTEMPTS REACHED - ENTERING SAFE MODE !!!"
MsgCameraDisabled == "*** RUNNING IN SAFE MODE - Camera disabled ***"
MsgCameraFailed == "WARNING: Camera initialization failed!"
MsgRecovery == "Safe mode recovery attempt - resetting boot counter and rebooting"
MsgSafeModeCmd == "Safe mode activated. Reboot to apply."
MsgResetCmd == "Boot counter reset to 0"
MsgDhtFailure == "DHT22 sensor failure detected!"
MsgDhtRecovered == "DHT22 sensor recovered and working normally"

ReasonCamera == "Camera init failed"
ReasonRecovery == "Safe mode recovery attempt"
ReasonManual == "Manual reboot command"
ReasonIot == "IoT reboot command"
ReasonPower == "power"          \* power-on or power loss: no reboot message
Running == ""                   \* no restart requested

(* The reason given to takeAndUploadPhoto(). *)
PhotoBoot == "boot"
PhotoScheduled == "scheduled"
PhotoMotion == "motion detected"
PhotoManual == "manual"
PhotoIot == "iot-command"

SerialCommands == {"", "snapshot", "blanket on", "blanket off", "blanket auto",
                   "reboot", "safemode", "reset"}
IotCommands == {"", "snapshot", "reboot"}

(* What dht->readTemperature() and dht->readHumidity() give, in tenths of  *)
(* a degree and of a percent; tempNaN / humNaN: the value is not a number. *)
(* Reading(v, x): both channels valid or both not.                         *)
(* time(nullptr): synced is false below 100000.                            *)
Sample(tempOk, x, humOk, h) ==
    [tempNaN |-> ~tempOk, temp |-> x, humNaN |-> ~humOk, humidity |-> h]
Reading(v, x) == Sample(v, x, v, 500)
NoReading == Reading(FALSE, 0)
WallClock(ok, h) == [synced |-> ok, hour |-> h]
Unsynced == WallClock(FALSE, 0)

----------------------------------------------------------------------------
(* The program state a handler works on, as one record; `restart` is the   *)
(* reason given to rebootSystem() once ESP.restart() has been called.      *)
Cur ==
    [bootAttempts |-> bootAttempts, safeMode |-> safeMode,
     cameraAvailable |-> cameraAvailable, bootStartTime |-> bootStartTime,
     lastSafeModeRecoveryAttempt |-> lastSafeModeRecoveryAttempt,
     nvBootAttempts |-> nvBootAttempts, nvSafeMode |-> nvSafeMode,
     catPresent |-> catPresent, blanketOn |-> blanketOn,
     relayPin |-> relayPin,
     blanketManualOverride |-> blanketManualOverride,
     lastBlanketChange |-> lastBlanketChange,
     lastMotionDetected |-> lastMotionDetected,
     currentTemp |-> currentTemp, currentHumidity |-> currentHumidity,
     dhtSensorWorking |-> dhtSensorWorking,
     lastDHTRead |-> lastDHTRead, lastPhotoTime |-> lastPhotoTime,
     lastHourlyPhotoTime |-> lastHourlyPhotoTime,
     lastCatPresent |-> lastCatPresent, presenceTimeout |-> presenceTimeout,
     effectiveTemp |-> effectiveTemp, shouldBeOn |-> shouldBeOn,
     restart |-> Running, log |-> <<>>, photos |-> <<>>]

logPrint(s, msg) == [s EXCEPT !.log = Append(@, msg)]

loadBootState(s) ==
    LET s1 == [s EXCEPT !.bootAttempts = s.nvBootAttempts,
                        !.safeMode = s.nvSafeMode]
    IN  IF s1.safeMode THEN logPrint(s1, MsgSafeModeActive) ELSE s1

ReachedMaxAttempts_Strict(n) == n > MAX_BOOT_ATTEMPTS
ReachedMaxAttempts(n) == n >= MAX_BOOT_ATTEMPTS

PersistAttempts_OnlyAtMax(s) ==
    IF ReachedMaxAttempts(s.bootAttempts)
    THEN [s EXCEPT !.nvBootAttempts = s.bootAttempts] ELSE s
PersistAttempts(s) == [s EXCEPT !.nvBootAttempts = s.bootAttempts]

EnterSafeMode_Always(s) ==
    [logPrint(s, MsgMaxAttempts) EXCEPT !.safeMode = TRUE, !.nvSafeMode = TRUE]
EnterSafeMode(s) ==
    IF ReachedMaxAttempts(s.bootAttempts)
    THEN [logPrint(s, MsgMaxAttempts) EXCEPT !.safeMode = TRUE, !.nvSafeMode = TRUE]
    ELSE s

incrementBootAttempt(s) ==
    EnterSafeMode(PersistAttempts([s EXCEPT !.bootAttempts = @ + 1]))

markBootSuccess_ClearsRuntimeFlag(s) ==
    [logPrint(s, MsgBootSuccessful) EXCEPT
        !.bootAttempts = 0, !.safeMode = FALSE,
        !.nvBootAttempts = 0, !.nvSafeMode = FALSE]
markBootSuccess_KeepsNvFlag(s) ==
    [logPrint(s, MsgBootSuccessful) EXCEPT
        !.bootAttempts = 0, !.nvBootAttempts = 0]
markBootSuccess(s) ==
    [logPrint(s, MsgBootSuccessful) EXCEPT
        !.bootAttempts = 0, !.nvBootAttempts = 0, !.nvSafeMode = FALSE]

rebootSystem(s, reason) == [s EXCEPT !.restart = reason]

(* takeAndUploadPhoto(), common.cpp:1584-1623: the call is recorded with   *)
(* whether it got as far as capturePhoto(); online is IsWiFiConnected().   *)
takeAndUploadPhoto_Retrying(s, reason, online) ==
    LET attempt == [reason |-> reason, taken |-> s.cameraAvailable /\ online]
    IN  [s EXCEPT !.photos = IF attempt.taken THEN Append(@, attempt)
                             ELSE Append(Append(@, attempt), attempt)]
takeAndUploadPhoto(s, reason, online) ==
    [s EXCEPT !.photos = Append(@, [reason |-> reason,
                                    taken |-> s.cameraAvailable /\ online])]

----------------------------------------------------------------------------
(* setup(), patura.cpp:32-45: the boot state is loaded and the attempt     *)
(* counted before anything else is initialised; t is millis() after the    *)
(* delay(1000) of line 35.                                                 *)
setupBootState(s, t) ==
    [incrementBootAttempt(loadBootState(s)) EXCEPT !.bootStartTime = t]

(* setup(), patura.cpp:47-53: the photo timers. *)
setupPhotoTimers_FromBoot(s, t) ==
    [s EXCEPT !.lastPhotoTime = t, !.lastHourlyPhotoTime = t]
setupPhotoTimers(s, t) ==
    [s EXCEPT !.lastPhotoTime = t - PHOTO_MOTION_COOLDOWN - 1000,
              !.lastHourlyPhotoTime = t]

(* setup(), patura.cpp:55-67: the camera block; ok is what initCamera()    *)
(* returns when it is called.                                              *)
CameraFailure_KeepsRunning(s) ==
    logPrint([s EXCEPT !.cameraAvailable = FALSE], MsgCameraFailed)
CameraFailure(s) ==
    rebootSystem(logPrint([s EXCEPT !.cameraAvailable = FALSE], MsgCameraFailed),
                 ReasonCamera)

setupCamera(s, ok) ==
    IF s.safeMode
    THEN logPrint([s EXCEPT !.cameraAvailable = FALSE], MsgCameraDisabled)
    ELSE IF ok THEN [s EXCEPT !.cameraAvailable = TRUE]
         ELSE CameraFailure(s)

(* setup(), patura.cpp:68-119: what follows the camera block, as far as    *)
(* the state goes: the boot snapshot, taken when connectWiFi() succeeded   *)
(* (online) and the time is synced.                                        *)
setupBootSnapshot(s, online, wall) ==
    IF online /\ s.cameraAvailable /\ wall.synced
    THEN takeAndUploadPhoto(s, PhotoBoot, online) ELSE s

(* setupGPIO(), common.cpp:1360-1387: the relay pin becomes an output and   *)
(* is driven LOW.                                                          *)
setupGPIO(s) == [s EXCEPT !.relayPin = "LOW"]

setupFromCamera(s, ok, online, wall) ==
    LET s1 == setupCamera(s, ok)
    IN  IF s1.restart # Running THEN s1
        ELSE setupBootSnapshot(setupGPIO(s1), online, wall)

(* loop(), patura.cpp:124-127: the uptime check. *)
UptimeReached_Strict(s, t) ==
    s.bootAttempts > 0 /\ Sub32(t, s.bootStartTime) > BOOT_SUCCESS_TIMEOUT
UptimeReached(s, t) ==
    s.bootAttempts > 0 /\ Sub32(t, s.bootStartTime) >= BOOT_SUCCESS_TIMEOUT

checkBootSuccess(s, t) == IF UptimeReached(s, t) THEN markBootSuccess(s) ELSE s

(* loop(), patura.cpp:131-152: safe mode recovery. *)
LatchRecoveryTimer_EveryPass(s, t) == [s EXCEPT !.lastSafeModeRecoveryAttempt = t]
LatchRecoveryTimer(s, t) ==
    IF s.lastSafeModeRecoveryAttempt = 0
    THEN [s EXCEPT !.lastSafeModeRecoveryAttempt = t] ELSE s

RecoveryDue_Strict(s, t) ==
    Sub32(t, s.lastSafeModeRecoveryAttempt) > SAFE_MODE_RECOVERY_INTERVAL
RecoveryDue(s, t) ==
    Sub32(t, s.lastSafeModeRecoveryAttempt) >= SAFE_MODE_RECOVERY_INTERVAL

RecoveryReboot(s) ==
    rebootSystem(markBootSuccess(logPrint(s, MsgRecovery)), ReasonRecovery)

safeModeRecovery(s, t) ==
    IF s.safeMode
    THEN LET s1 == LatchRecoveryTimer(s, t)
         IN  IF RecoveryDue(s1, t) THEN RecoveryReboot(s1) ELSE s1
    ELSE s

(* checkPIRSensor(), common.cpp:1394-1418; motion is readPIRSensor(). *)
PresenceExpired_Strict(s, t) ==
    s.catPresent /\ Sub32(t, s.lastMotionDetected) > s.presenceTimeout
PresenceExpired(s, t) ==
    s.catPresent /\ Sub32(t, s.lastMotionDetected) >= s.presenceTimeout

checkPIRSensor_KeepsTimestamp(s, t, motion) ==
    IF motion
    THEN [s EXCEPT !.catPresent = TRUE]
    ELSE IF PresenceExpired(s, t) THEN [s EXCEPT !.catPresent = FALSE] ELSE s
checkPIRSensor(s, t, motion) ==
    IF motion
    THEN [s EXCEPT !.catPresent = TRUE, !.lastMotionDetected = t]
    ELSE IF PresenceExpired(s, t) THEN [s EXCEPT !.catPresent = FALSE] ELSE s

(* controlBlanket(), common.cpp:1420-1432. *)
RelayLevel(on) == IF on THEN "HIGH" ELSE "LOW"

controlBlanket_Restamps(s, shouldBe, t) ==
    [s EXCEPT !.blanketOn = shouldBe, !.lastBlanketChange = t,
              !.relayPin = RelayLevel(shouldBe)]
controlBlanket(s, shouldBe, t) ==
    IF shouldBe # s.blanketOn
    THEN [s EXCEPT !.blanketOn = shouldBe, !.lastBlanketChange = t,
                   !.relayPin = RelayLevel(shouldBe)]
    ELSE s

(* readDHT22(), common.cpp:1434-1485. *)
SampleRejected_TempOnly(reading) == reading.tempNaN
SampleRejected(reading) == reading.tempNaN \/ reading.humNaN

readDHT22(s, t, reading) ==
    IF Sub32(t, s.lastDHTRead) >= DHT_READ_INTERVAL
    THEN LET s1 == [s EXCEPT !.lastDHTRead = t]
         IN  IF SampleRejected(reading)
             THEN IF s1.dhtSensorWorking
                  THEN [logPrint(s1, MsgDhtFailure)
                          EXCEPT !.dhtSensorWorking = FALSE]
                  ELSE s1
             ELSE LET s2 == IF ~s1.dhtSensorWorking
                            THEN [logPrint(s1, MsgDhtRecovered)
                                    EXCEPT !.dhtSensorWorking = TRUE]
                            ELSE s1
                  IN  [s2 EXCEPT !.currentTemp = reading.temp,
                                 !.currentHumidity = reading.humidity]
    ELSE s

(* getExpectedTemperature(), common.cpp:1487-1505. *)
getExpectedTemperature_Midnight(wall) ==
    IF ~wall.synced THEN WINTER_TEMP_TABLE[0 + 1]
    ELSE WINTER_TEMP_TABLE[wall.hour + 1]
getExpectedTemperature(wall) ==
    IF ~wall.synced THEN WINTER_TEMP_TABLE[3 + 1]
    ELSE WINTER_TEMP_TABLE[wall.hour + 1]

(* getEffectiveTemperature(), common.cpp:1507-1526. *)
Aberrant_Inclusive(temp) ==
    temp >= TEMP_MAX_REASONABLE \/ temp <= TEMP_MIN_REASONABLE
Aberrant(temp) == temp > TEMP_MAX_REASONABLE \/ temp < TEMP_MIN_REASONABLE

FallsBack(s) == ~s.dhtSensorWorking \/ Aberrant(s.currentTemp)

getEffectiveTemperature(s, wall) ==
    IF ~s.dhtSensorWorking THEN getExpectedTemperature(wall)
    ELSE IF Aberrant(s.currentTemp) THEN getExpectedTemperature(wall)
         ELSE s.currentTemp

(* updateBlanketControl(), common.cpp:1528-1555. *)
IsCold_Inclusive(temp) == temp <= TEMP_COLD_THRESHOLD
IsCold(temp) == temp < TEMP_COLD_THRESHOLD

DwellElapsed_Always(s, t) == TRUE
DwellElapsed_Strict(s, t) ==
    Sub32(t, s.lastBlanketChange) > BLANKET_MIN_STATE_TIME
DwellElapsed(s, t) == Sub32(t, s.lastBlanketChange) >= BLANKET_MIN_STATE_TIME

ManualMode_Never(s) == FALSE
ManualMode(s) == s.blanketManualOverride

updateBlanketControl_OffInSafeMode(s, t, wall) ==
    IF ManualMode(s) \/ s.safeMode THEN s
    ELSE LET eff == getEffectiveTemperature(s, wall)
             want == s.catPresent /\ IsCold(eff)
             s1 == [s EXCEPT !.effectiveTemp = eff, !.shouldBeOn = want]
         IN  IF want # s1.blanketOn /\ DwellElapsed(s1, t)
             THEN controlBlanket(s1, want, t) ELSE s1
updateBlanketControl(s, t, wall) ==
    IF ManualMode(s) THEN s
    ELSE LET eff == getEffectiveTemperature(s, wall)
             want == s.catPresent /\ IsCold(eff)
             s1 == [s EXCEPT !.effectiveTemp = eff, !.shouldBeOn = want]
         IN  IF want # s1.blanketOn /\ DwellElapsed(s1, t)
             THEN controlBlanket(s1, want, t) ELSE s1

(* checkPhotoSchedule(), common.cpp:1625-1653. *)
PeriodicDue_Strict(s, t) ==
    Sub32(t, s.lastHourlyPhotoTime) > PHOTO_HOURLY_INTERVAL
PeriodicDue(s, t) == Sub32(t, s.lastHourlyPhotoTime) >= PHOTO_HOURLY_INTERVAL

CooldownExpired(s, t) == Sub32(t, s.lastPhotoTime) >= PHOTO_MOTION_COOLDOWN

checkPhotoSchedule_KeepsEdge(s, t, online) ==
    IF ~s.cameraAvailable THEN s
    ELSE IF PeriodicDue(s, t)
    THEN takeAndUploadPhoto([s EXCEPT !.lastHourlyPhotoTime = t,
                                      !.lastPhotoTime = t],
                            PhotoScheduled, online)
    ELSE LET catJustArrived == s.catPresent /\ ~s.lastCatPresent
         IN  IF catJustArrived /\ ~CooldownExpired(s, t) THEN s
             ELSE [(IF catJustArrived
                    THEN takeAndUploadPhoto([s EXCEPT !.lastPhotoTime = t],
                                            PhotoMotion, online)
                    ELSE s) EXCEPT !.lastCatPresent = s.catPresent]
checkPhotoSchedule(s, t, online) ==
    IF ~s.cameraAvailable THEN s
    ELSE IF PeriodicDue(s, t)
    THEN takeAndUploadPhoto([s EXCEPT !.lastHourlyPhotoTime = t,
                                      !.lastPhotoTime = t],
                            PhotoScheduled, online)
    ELSE LET catJustArrived == s.catPresent /\ ~s.lastCatPresent
             s1 == IF catJustArrived /\ CooldownExpired(s, t)
                   THEN takeAndUploadPhoto([s EXCEPT !.lastPhotoTime = t],
                                           PhotoMotion, online)
                   ELSE s
         IN  [s1 EXCEPT !.lastCatPresent = s.catPresent]

(* handleSerialCommands(), common.cpp:1655-1805, for the commands that     *)
(* reach the state; the other commands leave it as it is.                  *)
SafeModeCommand_KeepsCamera(s) ==
    logPrint([s EXCEPT !.safeMode = TRUE, !.nvSafeMode = TRUE], MsgSafeModeCmd)
SafeModeCommand(s) ==
    logPrint([s EXCEPT !.safeMode = TRUE, !.cameraAvailable = FALSE,
                       !.nvSafeMode = TRUE], MsgSafeModeCmd)

BlanketCommand(s, on, t) ==
    controlBlanket([s EXCEPT !.blanketManualOverride = TRUE], on, t)

handleSerialCommands(s, cmd, t, online) ==
    CASE cmd = "reboot"   -> rebootSystem(s, ReasonManual)
      [] cmd = "safemode" -> SafeModeCommand(s)
      [] cmd = "reset"    -> logPrint(markBootSuccess(s), MsgResetCmd)
      [] cmd = "snapshot" ->
            IF s.cameraAvailable
            THEN takeAndUploadPhoto(s, PhotoManual, online) ELSE s
      [] cmd = "blanket on"   -> BlanketCommand(s, TRUE, t)
      [] cmd = "blanket off"  -> BlanketCommand(s, FALSE, t)
      [] cmd = "blanket auto" -> [s EXCEPT !.blanketManualOverride = FALSE]
      [] OTHER            -> s

(* handleIotCommand(), dfr1154.cpp:351-383, called from loopAwsIot()       *)
(* (dfr1154.cpp:301-314) when Wi-Fi and the MQTT session are up; cmd is    *)
(* the "command" field of the message received in this pass, "" for none.  *)
handleIotCommand(s, cmd, online) ==
    CASE cmd = "reboot"   -> rebootSystem(s, ReasonIot)
      [] cmd = "snapshot" ->
            IF s.cameraAvailable
            THEN takeAndUploadPhoto(s, PhotoIot, online) ELSE s
      [] OTHER            -> s

loopAwsIot(s, cmd, online) ==
    IF ~online THEN s ELSE handleIotCommand(s, cmd, online)

(* LivePhoto::Loop(), unnamed/part_002:90-124, called from loopAwsIot():   *)
(* whether it takes a frame, for a stream in state live at millis() = t.   *)
LIVEPHOTO_STREAM_MAX_MS == 300000
LIVEPHOTO_STREAM_FPS_MS == 1000
LivePhotoTakesFrame(s, live, t) ==
    /\ live.isStreaming
    /\ ~(Sub32(t, live.streamStartedMs) > LIVEPHOTO_STREAM_MAX_MS)
    /\ s.cameraAvailable
    /\ (live.lastPhotoMs = 0
        \/ Sub32(t, live.lastPhotoMs) >= LIVEPHOTO_STREAM_FPS_MS)

(* The one element of a singleton: used to name the state a handler      *)
(* leaves before the next statement reads it.                              *)
Only(S) == CHOOSE x \in S : TRUE

(* loop() from checkPIRSensor() on, patura.cpp:157-172. *)
loopControl(s, t, in) ==
    Only({ loopAwsIot(s4, in.iot, in.online) :
             s4 \in { checkPhotoSchedule(s3, t, in.online) :
             s3 \in { updateBlanketControl(s2, t, in.wall) :
             s2 \in { readDHT22(s1, t, in.reading) :
             s1 \in { checkPIRSensor(s, t, in.motion) }}}} })

(* loop() from handleSerialCommands() on, patura.cpp:154-172. *)
loopCommands(s, t, in) ==
    Only({ IF s1.restart # Running THEN s1 ELSE loopControl(s1, t, in) :
             s1 \in { handleSerialCommands(s, in.cmd, t, in.online) } })

(* One pass of loop(), patura.cpp:121-184, at millis() = t, with its       *)
(* inputs in: the line read from the serial port (cmd) and the command     *)
(* received over MQTT (iot), "" for none; the PIR pin (motion); the DHT22  *)
(* reading; time(nullptr) (wall); IsWiFiConnected() (online).              *)
(* rebootSystem() does not return: what follows it does not run.           *)
loop_RecoveryLast(s, t, in) ==
    Only({ IF s2.restart # Running THEN s2 ELSE safeModeRecovery(s2, t) :
             s2 \in { loopCommands(s1, t, in) :
             s1 \in { checkBootSuccess(s, t) }} })
loop(s, t, in) ==
    Only({ IF s2.restart # Running THEN s2 ELSE loopCommands(s2, t, in) :
             s2 \in { safeModeRecovery(s1, t) :
             s1 \in { checkBootSuccess(s, t) }} })

----------------------------------------------------------------------------
(* The timer classes of common.h. Both compare sums of unsigned long       *)
(* values (32 bits on the ESP32) with millis(). The model checker's        *)
(* integers end at 2^31 - 1, so the times of this part are held in units   *)
(* of MsPerUnit milliseconds: every constant of the classes is a multiple  *)
(* of the unit, and 2^32 ms are CounterRange units.                        *)
MsPerUnit == 8
CounterRange == 2^29
Units(ms) == ms \div MsPerUnit
Add32(a, b) == (a + b) % CounterRange
Min(a, b) == IF a < b THEN a ELSE b
Max(a, b) == IF a > b THEN a ELSE b

WIFI_RETRY_CONNECT == 30000
IOT_RECONNECT_MAX_DELAY == 120000
IOT_RECONNECT_MIN_DELAY == 5000
DefaultMinDelay == 1000

(* class BackOffRetry, common.h:89-139. The three counters are unsigned    *)
(* long as well; they stay far below 2^32 here.                            *)
BackOffRetry(maxDelay, minDelay) ==
    [lastRetry |-> 0, currentDelay |-> 0,
     minDelay |-> Units(minDelay), maxDelay |-> Units(maxDelay),
     allowedCount |-> 0, delayedCount |-> 0, resetCount |-> 0]
connectRetry == BackOffRetry(WIFI_RETRY_CONNECT, DefaultMinDelay)
mqttRetry == BackOffRetry(IOT_RECONNECT_MAX_DELAY, IOT_RECONNECT_MIN_DELAY)

Reset_KeepsCounters(r) ==
    [r EXCEPT !.currentDelay = 0, !.lastRetry = 0, !.resetCount = @ + 1]
Reset(r) ==
    [r EXCEPT !.currentDelay = 0, !.lastRetry = 0,
              !.allowedCount = 0, !.delayedCount = 0,
              !.resetCount = @ + 1]

(* CanRetry() at millis() = t: the object afterwards; the call returned    *)
(* true iff RetryAllowed.                                                  *)
RetryAllowed(r, t) == ~(Add32(r.lastRetry, r.currentDelay) > t)
CanRetry(r, t) ==
    IF ~RetryAllowed(r, t)
    THEN [r EXCEPT !.delayedCount = @ + 1]
    ELSE [r EXCEPT !.lastRetry = t,
                   !.currentDelay = Min(r.maxDelay, Max(r.currentDelay * 2, r.minDelay)),
                   !.allowedCount = @ + 1]

(* class DebounceTimer, common.h:41-86. *)
DebounceTimer ==
    [lastAct |-> 0, currentDelay |-> 0,
     minAct |-> Units(10*1000), maxDelay |-> Units(5*60*1000),
     cooldown |-> Units(10*60*1000), maxAct |-> Units(30*60*1000)]

CanAct(a, t) == ~(Add32(a.lastAct, a.currentDelay) > t)
MustAct(a, t) == ~(a.lastAct > 0 /\ Add32(a.lastAct, a.maxAct) > t)
MarkAct(a, t) ==
    [a EXCEPT !.currentDelay =
                  IF Add32(a.lastAct, a.cooldown) < t
                  THEN a.minAct
                  ELSE Max(a.minAct, Min(a.currentDelay * 2, a.maxDelay)),
              !.lastAct = t]

(* The Wi-Fi connection, part_003:17-201. state is _wifiState, connected   *)
(* is wifiConnected; begun says that WiFi.begin() was called and the       *)
(* driver has not yet posted the event that ends the attempt.              *)
WifiDown ==
    [state |-> "Disconnected", connected |-> FALSE, hasSNTPTime |-> FALSE,
     begun |-> FALSE]
IsWiFiConnected(w) == w.connected /\ w.hasSNTPTime

(* What WiFi.scanNetworks() finds: nothing, only networks that are not in  *)
(* KNOWN_NETWORKS, or a known one.                                         *)
Scans == {"none", "unknown", "known"}

(* connectWiFi() at millis() = t, on the Wi-Fi state w and the retry       *)
(* object r.                                                               *)
connectWiFi(w, r, t, scan) ==
    IF w.connected \/ w.state = "Connecting"
    THEN [wifi |-> w, retry |-> r]
    ELSE IF ~RetryAllowed(r, t)
    THEN [wifi |-> w, retry |-> CanRetry(r, t)]
    ELSE [wifi |->
            CASE scan = "none" -> [w EXCEPT !.state = "Connecting"]
              [] scan = "unknown" -> [w EXCEPT !.state = "Disconnected"]
              [] scan = "known" -> [w EXCEPT !.state = "Connecting",
                                             !.begun = TRUE],
          retry |-> CanRetry(r, t)]

(* loop() of the camera firmware, camera.cpp:46-62, at millis() = t, on    *)
(* the Wi-Fi state, the retry object and the debounce timer a; ok is what  *)
(* takeAndUploadPhoto() returns, after the time UploadTime. loopAwsIot()   *)
(* works on the MQTT client and its own retry object only.                 *)
UploadTime == 2000
ActionDue(a, t, motion) == (motion /\ CanAct(a, t)) \/ MustAct(a, t)
cameraLoop_MarksAttempts(w, r, a, t, in) ==
    IF ~IsWiFiConnected(w)
    THEN [wifi |-> connectWiFi(w, r, t, in.scan).wifi,
          retry |-> connectWiFi(w, r, t, in.scan).retry,
          action |-> a, attempts |-> 0]
    ELSE [wifi |-> w, retry |-> r,
          action |-> IF ActionDue(a, t, in.motion)
                     THEN MarkAct(a, Add32(t, Units(UploadTime))) ELSE a,
          attempts |-> IF ActionDue(a, t, in.motion) THEN 1 ELSE 0]
cameraLoop(w, r, a, t, in) ==
    IF ~IsWiFiConnected(w)
    THEN [wifi |-> connectWiFi(w, r, t, in.scan).wifi,
          retry |-> connectWiFi(w, r, t, in.scan).retry,
          action |-> a, attempts |-> 0]
    ELSE [wifi |-> w, retry |-> r,
          action |-> IF ActionDue(a, t, in.motion) /\ in.ok
                     THEN MarkAct(a, Add32(t, Units(UploadTime))) ELSE a,
          attempts |-> IF ActionDue(a, t, in.motion) THEN 1 ELSE 0]

(* What the model records about the calls: the time that really passed     *)
(* since the boot (uptime), since the last CanRetry() that returned true   *)
(* (sinceAllowed) and since the last MarkAct() (sinceAct), the CanRetry()  *)
(* calls since the last Reset() or the construction that returned true     *)
(* (trues) and false (falses), the calls of MarkAct() (marks) and of       *)
(* takeAndUploadPhoto() by the camera loop (attempts), and the calls made  *)
(* (calls).                                                                *)
NoCalls ==
    [uptime |-> 0, sinceAllowed |-> 0, sinceAct |-> 0,
     trues |-> 0, falses |-> 0, marks |-> 0, attempts |-> 0, calls |-> 0]

(* The statics as their constructors leave them. *)
InitTimers(r) ==
    /\ millis = 0
    /\ retry = r
    /\ cameraAction = DebounceTimer
    /\ timerObs = NoCalls
    /\ wifi = WifiDown

----------------------------------------------------------------------------
(* What the firmware state becomes once a handler that read millis() = t   *)
(* has produced s: either the handler returned and the firmware is at      *)
(* position next, or the chip restarted and every global has its initial   *)
(* value again (common.cpp:495-516; the relay pin is LOW after a reset)    *)
(* while the NVM keeps what was written; millis() starts again from 0 and  *)
(* setup reads it next.                                                    *)
Commit(s, next, t) ==
    /\ nvBootAttempts' = s.nvBootAttempts
    /\ nvSafeMode' = s.nvSafeMode
    /\ now' = t
    /\ photos' = s.photos
    /\ IF s.restart = Running
       THEN /\ bootAttempts' = s.bootAttempts
            /\ safeMode' = s.safeMode
            /\ cameraAvailable' = s.cameraAvailable
            /\ bootStartTime' = s.bootStartTime
            /\ lastSafeModeRecoveryAttempt' = s.lastSafeModeRecoveryAttempt
            /\ catPresent' = s.catPresent
            /\ blanketOn' = s.blanketOn
            /\ relayPin' = s.relayPin
            /\ blanketManualOverride' = s.blanketManualOverride
            /\ lastBlanketChange' = s.lastBlanketChange
            /\ lastMotionDetected' = s.lastMotionDetected
            /\ currentTemp' = s.currentTemp
            /\ currentHumidity' = s.currentHumidity
            /\ dhtSensorWorking' = s.dhtSensorWorking
            /\ lastDHTRead' = s.lastDHTRead
            /\ lastPhotoTime' = s.lastPhotoTime
            /\ lastHourlyPhotoTime' = s.lastHourlyPhotoTime
            /\ lastCatPresent' = s.lastCatPresent
            /\ effectiveTemp' = s.effectiveTemp
            /\ shouldBeOn' = s.shouldBeOn
            /\ pc' = next
            /\ resetReason' = resetReason
       ELSE /\ bootAttempts' = 0
            /\ safeMode' = FALSE
            /\ cameraAvailable' = FALSE
            /\ bootStartTime' = 0
            /\ lastSafeModeRecoveryAttempt' = 0
            /\ catPresent' = FALSE
            /\ blanketOn' = FALSE
            /\ relayPin' = "INPUT"
            /\ blanketManualOverride' = FALSE
            /\ lastBlanketChange' = 0
            /\ lastMotionDetected' = 0
            /\ currentTemp' = 0
            /\ currentHumidity' = 0
            /\ dhtSensorWorking' = TRUE
            /\ lastDHTRead' = 0
            /\ lastPhotoTime' = 0
            /\ lastHourlyPhotoTime' = 0
            /\ lastCatPresent' = FALSE
            /\ effectiveTemp' = 0
            /\ shouldBeOn' = FALSE
            /\ pc' = "boot"
            /\ resetReason' = s.restart
    /\ UNCHANGED timerVars

(* The model follows a session while its clock is within the bound; a safe *)
(* mode session ends by itself within the recovery interval.               *)
Followed(s, t) == t <= (IF s.safeMode THEN MaxSafeMillis ELSE MaxMillis)

(* The environments the firmware is run in. Each gives the inputs offered  *)
(* to the handlers: the serial lines (cmds) and MQTT commands (iots), the  *)
(* PIR pin levels (motions), the DHT22 readings, time(nullptr) (walls),    *)
(* IsWiFiConnected() (onlines), what initCamera() returns (oks), the time  *)
(* from one loop pass to the next (deltas), and for how many passes a      *)
(* session is followed (maxPasses; 0: while Followed).                     *)
MildReading == Reading(TRUE, TEMP_COLD_THRESHOLD + 70)
ColdReading == Reading(TRUE, TEMP_COLD_THRESHOLD - 1)
WarmReading == Reading(TRUE, TEMP_COLD_THRESHOLD)
Noon == WallClock(TRUE, 12)

BootEnv ==
    [cmds |-> {"", "snapshot", "reboot", "safemode", "reset"},
     iots |-> IotCommands, motions |-> {FALSE}, readings |-> {MildReading},
     walls |-> {Unsynced}, onlines |-> {TRUE}, oks |-> BOOLEAN,
     deltas |-> TickDeltas, maxPasses |-> 0]

(* Presence: the PIR pin against the presence timeout. *)
MaxPresencePasses == 4
PresenceTimeouts == {0, TickUnit, CAT_PRESENCE_TIMEOUT}
PresenceEnv ==
    [cmds |-> {""}, iots |-> {""}, motions |-> BOOLEAN,
     readings |-> {MildReading}, walls |-> {Unsynced}, onlines |-> {TRUE},
     oks |-> {TRUE},
     deltas |-> {TickUnit, CAT_PRESENCE_TIMEOUT - TickUnit},
     maxPasses |-> MaxPresencePasses]

(* Heater: presence and temperature around the threshold on passes closer  *)
(* than the minimum state time, the blanket commands, and a pass that      *)
(* comes one recovery interval after the one before.                       *)
HeaterTick == 150000
MaxHeaterPasses == 4
HeaterEnv ==
    [cmds |-> {"", "blanket on", "blanket off", "blanket auto"},
     iots |-> {""}, motions |-> BOOLEAN,
     readings |-> {ColdReading, WarmReading}, walls |-> {Unsynced},
     onlines |-> {TRUE}, oks |-> {TRUE},
     deltas |-> {HeaterTick, SAFE_MODE_RECOVERY_INTERVAL},
     maxPasses |-> MaxHeaterPasses]

(* Temperature: every kind of reading at every hour of the wall clock. *)
MaxTempPasses == 2
TempReadings ==
    {NoReading} \cup
    {Reading(TRUE, x) : x \in {TEMP_MIN_REASONABLE - 1, TEMP_MIN_REASONABLE,
                               TEMP_COLD_THRESHOLD - 1, TEMP_COLD_THRESHOLD,
                               TEMP_MAX_REASONABLE, TEMP_MAX_REASONABLE + 1}}
WallClocks == {Unsynced} \cup {WallClock(TRUE, h) : h \in Hours}
TempEnv ==
    [cmds |-> {""}, iots |-> {""}, motions |-> BOOLEAN,
     readings |-> TempReadings, walls |-> WallClocks, onlines |-> {TRUE},
     oks |-> {TRUE}, deltas |-> {TickUnit}, maxPasses |-> MaxTempPasses]

(* Photos: presence edges, the snapshot commands and Wi-Fi on passes       *)
(* inside the motion cooldown and one photo interval apart.                *)
PhotoTick == 30000
MaxPhotoPasses == 3
PhotoEnv ==
    [cmds |-> {"", "snapshot", "safemode"}, iots |-> {"", "snapshot"},
     motions |-> BOOLEAN, readings |-> {MildReading}, walls |-> {Noon},
     onlines |-> BOOLEAN, oks |-> {TRUE},
     deltas |-> {PhotoTick, 2 * PhotoTick, PHOTO_HOURLY_INTERVAL},
     maxPasses |-> MaxPhotoPasses]

(* Restarts: sessions that end before and after BOOT_SUCCESS_TIMEOUT of    *)
(* uptime, by a camera failure, a reboot command from either channel or a  *)
(* power loss, and the reset command.                                      *)
RestartTick == 60000
MaxRestartPasses == 2
RestartEnv ==
    [cmds |-> {"", "reboot", "reset"}, iots |-> {"", "reboot"},
     motions |-> {FALSE}, readings |-> {MildReading}, walls |-> {Unsynced},
     onlines |-> {TRUE}, oks |-> BOOLEAN,
     deltas |-> {RestartTick, BOOT_SUCCESS_TIMEOUT},
     maxPasses |-> MaxRestartPasses]

Inputs(E) ==
    [cmd : E.cmds, iot : E.iots, motion : E.motions, reading : E.readings,
     wall : E.walls, online : E.onlines]

(* The state after power-on with n boots counted in NVM since the boot     *)
(* state was last cleared (none of them reached safe mode), in a build     *)
(* whose CAT_PRESENCE_TIMEOUT is T.                                        *)
InitFirmware(n, T) ==
    /\ nvBootAttempts = n
    /\ nvSafeMode = FALSE
    /\ bootAttempts = 0
    /\ safeMode = FALSE
    /\ cameraAvailable = FALSE
    /\ bootStartTime = 0
    /\ lastSafeModeRecoveryAttempt = 0
    /\ catPresent = FALSE
    /\ blanketOn = FALSE
    /\ relayPin = "INPUT"
    /\ blanketManualOverride = FALSE
    /\ lastBlanketChange = 0
    /\ lastMotionDetected = 0
    /\ currentTemp = 0
    /\ currentHumidity = 0
    /\ dhtSensorWorking = TRUE
    /\ lastDHTRead = 0
    /\ lastPhotoTime = 0
    /\ lastHourlyPhotoTime = 0
    /\ lastCatPresent = FALSE
    /\ presenceTimeout = T
    /\ now = 0
    /\ pc = "boot"
    /\ quiet = FALSE
    /\ quietInSafeMode = FALSE
    /\ resetReason = ReasonPower
    /\ loadedAttempts = 0
    /\ loadedSafeMode = FALSE
    /\ camInit = "none"
    /\ camFailRun = 0
    /\ sessions = <<>>
    /\ marked = FALSE
    /\ uptimeMarks = 0
    /\ manualSafe = FALSE
    /\ photos = <<>>
    /\ effectiveTemp = 0
    /\ shouldBeOn = FALSE
    /\ clock = Unsynced
    /\ lastPulse = 0
    /\ passes = 0

InitAt(n, T) == InitFirmware(n, T) /\ InitTimers(connectRetry)

Init == InitAt(0, CAT_PRESENCE_TIMEOUT)

(* After two counted boots the next one runs in safe mode. *)
InitNormalOrSafe ==
    \E n \in {0, MAX_BOOT_ATTEMPTS - 1} : InitAt(n, CAT_PRESENCE_TIMEOUT)

InitPresence == \E T \in PresenceTimeouts : InitAt(0, T)

(* The session that ended in the restart before this boot: the reason of   *)
(* the restart, the outcome of its camera block and whether                *)
(* markBootSuccess() ran in it; it was short when it ended before the      *)
(* uptime check of loop() (patura.cpp:125) could fire, `now` being the     *)
(* millis() of its last handler. The observer keeps the short sessions in  *)
(* a row before a boot, the last MAX_BOOT_ATTEMPTS - 1 of them.            *)
SessionEnded == [reason |-> resetReason, cam |-> camInit, marked |-> marked]
SessionWasShort == Sub32(now, SetupDelay) < BOOT_SUCCESS_TIMEOUT
LastSessions(q) ==
    IF Len(q) < MAX_BOOT_ATTEMPTS THEN q ELSE SubSeq(q, 2, Len(q))

SetupBoot ==
    /\ pc = "boot"
    /\ \E s \in {setupPhotoTimers(setupBootState(Cur, SetupDelay), SetupDelay)} :
          Commit(s, "camera", SetupDelay)
    /\ loadedAttempts' = nvBootAttempts
    /\ loadedSafeMode' = nvSafeMode
    /\ camInit' = "none"
    /\ camFailRun' = IF resetReason = ReasonCamera THEN camFailRun + 1 ELSE 0
    /\ sessions' = IF now = 0 \/ ~SessionWasShort THEN <<>>
                   ELSE LastSessions(Append(sessions, SessionEnded))
    /\ marked' = FALSE
    /\ uptimeMarks' = 0
    /\ clock' = Unsynced
    /\ lastPulse' = 0
    /\ passes' = 0
    /\ UNCHANGED <<quiet, quietInSafeMode, manualSafe, presenceTimeout>>

SetupRest(E) ==
    /\ pc = "camera"
    /\ \E ok \in E.oks, online \in E.onlines, wall \in E.walls :
        \E s \in {setupFromCamera(Cur, ok, online, wall)} :
              /\ quiet => ok
              /\ Commit(s, "loop", now)
              /\ camInit' = IF safeMode THEN "skipped"
                            ELSE IF ok THEN "ok" ELSE "failed"
              /\ clock' = wall
    /\ UNCHANGED <<quiet, quietInSafeMode, loadedAttempts, loadedSafeMode,
                   camFailRun, sessions, marked, uptimeMarks, manualSafe, lastPulse,
                   passes, presenceTimeout>>

Pass(E) ==
    /\ pc = "loop"
    /\ \E in \in Inputs(E), d \in E.deltas :
        \E t \in {now + d} : \E s \in {loop(Cur, t, in)} :
          LET byUptime == checkBootSuccess(Cur, t).log # <<>>
              Printed(msg) == \E i \in 1..Len(s.log) : s.log[i] = msg
          IN  /\ quiet => (in.cmd = "" /\ in.iot = "")
              /\ "reboot" \in {in.cmd, in.iot} => nvBootAttempts < MaxBootCount
              /\ IF E.maxPasses = 0 THEN Followed(Cur, t)
                                    ELSE passes < E.maxPasses
              /\ Commit(s, "loop", t)
              /\ marked' = (marked \/ Printed(MsgBootSuccessful))
              /\ manualSafe' = (s.nvSafeMode /\
                                  (manualSafe \/ Printed(MsgSafeModeCmd)))
              /\ uptimeMarks' = IF byUptime THEN uptimeMarks + 1 ELSE uptimeMarks
              /\ clock' = in.wall
              /\ lastPulse' = IF s.restart # Running THEN 0
                              ELSE IF in.motion THEN t ELSE lastPulse
              /\ passes' = IF s.restart # Running \/ E.maxPasses = 0 THEN 0
                           ELSE passes + 1
    /\ UNCHANGED <<quiet, quietInSafeMode, loadedAttempts, loadedSafeMode,
                   camInit, camFailRun, sessions, presenceTimeout>>

SetupCamera == SetupRest(BootEnv)
Loop == Pass(BootEnv)

PowerLoss ==
    /\ pc # "boot"
    /\ ~quiet
    /\ nvBootAttempts < MaxBootCount
    /\ Commit(rebootSystem(Cur, ReasonPower), "boot", now)
    /\ UNCHANGED <<quiet, quietInSafeMode, loadedAttempts, loadedSafeMode,
                   camInit, camFailRun, sessions, marked, uptimeMarks, manualSafe,
                   clock, lastPulse, passes, presenceTimeout>>

GoQuiet ==
    /\ ~quiet
    /\ quiet' = TRUE
    /\ quietInSafeMode' = (pc = "loop" /\ safeMode)
    /\ UNCHANGED <<bootVars, controlVars, presenceTimeout, now, pc,
                   resetReason, loadedAttempts, loadedSafeMode, camInit,
                   camFailRun, sessions, marked, uptimeMarks, manualSafe, photos,
                   effectiveTemp, shouldBeOn, clock, lastPulse, passes,
                   timerVars>>

Next == SetupBoot \/ SetupCamera \/ Loop \/ PowerLoss

Spec == Init /\ [][Next]_vars

(* The same program with an environment that may go quiet for good        *)
(* (GoQuiet: from then on the power stays on, no command arrives and       *)
(* initCamera() succeeds); the firmware keeps running: setup follows a     *)
(* restart, loop() is called again whenever it returns.                    *)
NextLive == Next \/ GoQuiet

SpecLive ==
    /\ Init
    /\ [][NextLive]_vars
    /\ WF_vars(SetupBoot)
    /\ WF_vars(SetupCamera)
    /\ WF_vars(Loop)

(* The program in the other environments. *)
PresenceSetup == SetupRest(PresenceEnv)
PresencePass == Pass(PresenceEnv)
NextPresence == SetupBoot \/ PresenceSetup \/ PresencePass
SpecPresence == InitPresence /\ [][NextPresence]_vars

HeaterSetup == SetupRest(HeaterEnv)
HeaterPass == Pass(HeaterEnv)
NextHeater == SetupBoot \/ HeaterSetup \/ HeaterPass
SpecHeater == InitNormalOrSafe /\ [][NextHeater]_vars

TempSetup == SetupRest(TempEnv)
TempPass == Pass(TempEnv)
NextTemp == SetupBoot \/ TempSetup \/ TempPass
SpecTemp == Init /\ [][NextTemp]_vars

PhotoSetup == SetupRest(PhotoEnv)
PhotoPass == Pass(PhotoEnv)
NextPhoto == SetupBoot \/ PhotoSetup \/ PhotoPass
SpecPhoto == InitNormalOrSafe /\ [][NextPhoto]_vars

RestartSetup == SetupRest(RestartEnv)
RestartPass == Pass(RestartEnv)
NextRestart == SetupBoot \/ RestartSetup \/ RestartPass \/ PowerLoss
SpecRestart == Init /\ [][NextRestart]_vars

(* The timer classes on their own: a static object of the class, called by *)
(* its users (connectWiFi() and loopAwsIot() call CanRetry(),              *)
(* WiFiStationGotIP() and mqttConnect() call Reset(), the camera loops     *)
(* call MarkAct()) at times the loop and the network decide. The device    *)
(* stays up for weeks, so the counter is followed past 2^32 ms (LongIdle:  *)
(* no call for that long, one minute short of the wrap).                   *)
firmwareVars == <<bootVars, controlVars, observerVars, presenceTimeout, now,
                  pc, quiet>>
LongIdle == CounterRange - Units(60000)
MaxTimerCalls == 7
MaxTimerUptime == CounterRange + Units(1200000)
RetryDeltas == {Units(1000), Units(IOT_RECONNECT_MAX_DELAY), LongIdle}
ActDeltas == {Units(10*1000), Units(10*60*1000), Units(10*60*1000) + 1, LongIdle}

TimerCall(d) ==
    /\ timerObs.calls < MaxTimerCalls
    /\ timerObs.uptime + d <= MaxTimerUptime
    /\ millis' = Add32(millis, d)

RetryCall ==
    /\ \E d \in RetryDeltas :
         /\ TimerCall(d)
         /\ \E t \in {Add32(millis, d)} :
              /\ retry' = CanRetry(retry, t)
              /\ timerObs' =
                   IF RetryAllowed(retry, t)
                   THEN [timerObs EXCEPT !.uptime = @ + d, !.calls = @ + 1,
                                         !.sinceAct = @ + d,
                                         !.sinceAllowed = 0, !.trues = @ + 1]
                   ELSE [timerObs EXCEPT !.uptime = @ + d, !.calls = @ + 1,
                                         !.sinceAct = @ + d,
                                         !.sinceAllowed = @ + d, !.falses = @ + 1]
    /\ UNCHANGED <<firmwareVars, cameraAction, wifi>>

RetryReset ==
    /\ timerObs.calls < MaxTimerCalls
    /\ retry' = Reset(retry)
    /\ timerObs' = [timerObs EXCEPT !.calls = @ + 1, !.trues = 0, !.falses = 0]
    /\ UNCHANGED <<firmwareVars, millis, cameraAction, wifi>>

InitBackOff ==
    /\ InitFirmware(0, CAT_PRESENCE_TIMEOUT)
    /\ \E r \in {connectRetry, mqttRetry} : InitTimers(r)
NextBackOff == RetryCall \/ RetryReset
SpecBackOff == InitBackOff /\ [][NextBackOff]_vars

MarkActCall ==
    /\ \E d \in ActDeltas :
         /\ TimerCall(d)
         /\ cameraAction' = MarkAct(cameraAction, Add32(millis, d))
         /\ timerObs' = [timerObs EXCEPT !.uptime = @ + d, !.calls = @ + 1,
                                         !.sinceAllowed = @ + d, !.sinceAct = 0,
                                         !.marks = @ + 1]
    /\ UNCHANGED <<firmwareVars, retry, wifi>>

NextDebounce == MarkActCall
SpecDebounce == Init /\ [][NextDebounce]_vars

(* The camera firmware: loop() on the loop task, and the Wi-Fi events and  *)
(* the SNTP callback, which the network stack calls while an attempt is in *)
(* flight or the station is connected. Passes are a second, ten seconds or *)
(* half an hour apart.                                                     *)
CameraDeltas == {Units(1000), Units(10*1000), Units(30*60*1000)}
CameraInputs == [motion : BOOLEAN, ok : BOOLEAN, scan : Scans]

MaxCameraLoops == 5

CameraLoop ==
    /\ timerObs.calls < MaxCameraLoops
    /\ \E d \in CameraDeltas, in \in CameraInputs :
         \E t \in {Add32(millis, d)} :
           \E c \in {cameraLoop(wifi, retry, cameraAction, t, in)} :
             LET took == d + (IF c.attempts > 0 THEN Units(UploadTime) ELSE 0)
             IN  /\ millis' = Add32(millis, took)
                 /\ wifi' = c.wifi
                 /\ retry' = c.retry
                 /\ cameraAction' = c.action
                 /\ timerObs' =
                      [timerObs EXCEPT
                         !.uptime = @ + took, !.calls = @ + 1,
                         !.sinceAct = IF c.action # cameraAction THEN 0 ELSE @ + took,
                         !.marks = IF c.action # cameraAction THEN @ + 1 ELSE @,
                         !.attempts = @ + c.attempts,
                         !.sinceAllowed = IF c.retry.allowedCount # retry.allowedCount
                                          THEN 0 ELSE @ + took,
                         !.trues = c.retry.allowedCount,
                         !.falses = c.retry.delayedCount]
    /\ UNCHANGED firmwareVars

WiFiStationGotIP ==
    /\ wifi.begun
    /\ wifi' = [wifi EXCEPT !.state = "Connected", !.connected = TRUE,
                            !.begun = FALSE]
    /\ retry' = Reset(retry)
    /\ timerObs' = [timerObs EXCEPT !.trues = 0, !.falses = 0]
    /\ UNCHANGED <<firmwareVars, millis, cameraAction>>

WiFiStationDisconnected ==
    /\ wifi.begun \/ wifi.connected
    /\ wifi' = [wifi EXCEPT !.state = "Disconnected", !.connected = FALSE,
                            !.begun = FALSE]
    /\ UNCHANGED <<firmwareVars, millis, retry, cameraAction, timerObs>>

timeSyncCallback ==
    /\ wifi.connected /\ ~wifi.hasSNTPTime
    /\ wifi' = [wifi EXCEPT !.hasSNTPTime = TRUE]
    /\ UNCHANGED <<firmwareVars, millis, retry, cameraAction, timerObs>>

NextCamera ==
    CameraLoop \/ WiFiStationGotIP \/ WiFiStationDisconnected \/ timeSyncCallback
SpecCamera == Init /\ [][NextCamera]_vars

----------------------------------------------------------------------------
(* Shorthands for the properties. *)
InSession == pc \in {"camera", "loop"}
CountedAttempts == loadedAttempts + 1      \* the count this boot's setup reached
LoopPass == pc = "loop" /\ ~(pc' = "boot" /\ resetReason' = ReasonPower)
                        /\ (pc' = "boot" \/ now' # now)

(* C1: whenever the attempt count incremented at boot reaches             *)
(* MAX_BOOT_ATTEMPTS or more, the session runs in safe mode and the        *)
(* persisted safe-mode flag is true (until markBootSuccess() runs); this   *)
(* holds again at every later boot that finds the count at or above the    *)
(* threshold, i.e. with no markBootSuccess() in between.                   *)
C1_EscalationAtMaxAttempts ==
    (InSession /\ CountedAttempts >= MAX_BOOT_ATTEMPTS) =>
        /\ safeMode
        /\ ~marked => (nvSafeMode /\ nvBootAttempts = CountedAttempts)

C1_Witness ==
    /\ pc = "loop"
    /\ CountedAttempts > MAX_BOOT_ATTEMPTS
    /\ loadedSafeMode /\ safeMode /\ nvSafeMode /\ ~marked

(* C2: markBootSuccess(), run in any reachable state, leaves the persisted *)
(* count 0 and the persisted flag false and does not touch safeMode or     *)
(* cameraAvailable; a session that booted into safe mode stays in safe     *)
(* mode with the camera disabled, also after markBootSuccess() has run.    *)
C2_MarkSuccessResetsOnlyNvm ==
    LET s == markBootSuccess(Cur)
    IN  /\ s.nvBootAttempts = 0 /\ s.nvSafeMode = FALSE /\ s.bootAttempts = 0
        /\ s.safeMode = safeMode /\ s.cameraAvailable = cameraAvailable
        /\ (pc = "loop" /\ camInit = "skipped") => (safeMode /\ ~cameraAvailable)

C2_Witness ==
    /\ pc = "loop" /\ camInit = "skipped" /\ marked
    /\ nvBootAttempts = 0 /\ ~nvSafeMode
    /\ safeMode /\ ~cameraAvailable

(* C3: once safeMode is true it stays true in every step that is not a     *)
(* restart, whatever the loop pass and the command do.                     *)
C3_SafeModeSticky == [][(safeMode /\ pc' # "boot") => safeMode']_vars

C3_Witness ==
    pc = "loop" /\ safeMode /\ uptimeMarks = 1 /\ ~nvSafeMode /\ loadedSafeMode

(* C4 as stated: the persisted safe-mode flag is true only if the          *)
(* persisted attempt count has reached MAX_BOOT_ATTEMPTS.                  *)
C4_FlagOnlyAtMaxAttempts == nvSafeMode => nvBootAttempts >= MAX_BOOT_ATTEMPTS

(* C4 amended: the persisted safe-mode flag is true only if the persisted  *)
(* attempt count has reached MAX_BOOT_ATTEMPTS since it was last cleared,  *)
(* or the safemode command has run since the flag was last false.          *)
C4_FlagAtMaxAttemptsOrByCommand ==
    nvSafeMode => (nvBootAttempts >= MAX_BOOT_ATTEMPTS \/ manualSafe)

C4_Witness ==
    /\ nvSafeMode /\ nvBootAttempts >= MAX_BOOT_ATTEMPTS /\ ~manualSafe
    /\ pc = "camera" /\ ~loadedSafeMode

(* C5: the persisted attempt count is incremented by exactly 1 by the      *)
(* first step of setup, before the camera block; in a session it holds     *)
(* this boot's count until markBootSuccess() runs, and every other change  *)
(* is a reset to 0 by markBootSuccess() in a loop pass.                    *)
C5_CountedOncePerBoot ==
    /\ [](pc = "camera" => camInit = "none")
    /\ []((InSession /\ ~marked) => nvBootAttempts = CountedAttempts)
    /\ [][IF pc = "boot" /\ pc' = "camera"
          THEN nvBootAttempts' = nvBootAttempts + 1
          ELSE \/ nvBootAttempts' = nvBootAttempts
               \/ (pc = "loop" /\ marked' /\ nvBootAttempts' = 0)]_vars

C5_Witness ==
    /\ pc = "camera" /\ camInit = "none" /\ ~safeMode
    /\ loadedAttempts = 1 /\ nvBootAttempts = 2

(* C6 as stated: when every restart since the cleared boot state was a     *)
(* "Camera init failed" reboot, a boot enters safe mode only after         *)
(* MAX_BOOT_ATTEMPTS boots in a row in which initCamera() was called and   *)
(* failed.                                                                 *)
C6_SafeModeAfterThreeCameraFailures ==
    (InSession /\ camInit = "skipped" /\ ~loadedSafeMode
               /\ camFailRun = loadedAttempts)
        => camFailRun >= MAX_BOOT_ATTEMPTS

(* C7: a loop pass in safe mode latches the recovery timestamp if it is    *)
(* not latched yet and otherwise keeps it; a loop pass that finds at least *)
(* SAFE_MODE_RECOVERY_INTERVAL elapsed since the latch restarts the device *)
(* with reason "Safe mode recovery attempt" and the persisted state        *)
(* cleared, and no pass restarts for that reason earlier; the boot that    *)
(* follows loads count 0 and flag false, is not in safe mode and calls     *)
(* initCamera().                                                           *)
C7_RecoveryAfterInterval ==
    /\ [][(LoopPass /\ safeMode /\ pc' = "loop") =>
            lastSafeModeRecoveryAttempt' =
               (IF lastSafeModeRecoveryAttempt = 0 THEN now'
                ELSE lastSafeModeRecoveryAttempt)]_vars
    /\ [][(LoopPass /\ safeMode /\ lastSafeModeRecoveryAttempt # 0
             /\ now' - lastSafeModeRecoveryAttempt >= SAFE_MODE_RECOVERY_INTERVAL)
          => (pc' = "boot" /\ resetReason' = ReasonRecovery)]_vars
    /\ [][(LoopPass /\ pc' = "boot" /\ resetReason' = ReasonRecovery)
          => /\ safeMode /\ lastSafeModeRecoveryAttempt # 0
             /\ now' - lastSafeModeRecoveryAttempt >= SAFE_MODE_RECOVERY_INTERVAL
             /\ nvBootAttempts' = 0 /\ ~nvSafeMode']_vars
    /\ []((InSession /\ resetReason = ReasonRecovery) =>
            /\ loadedAttempts = 0 /\ ~loadedSafeMode
            /\ camInit # "skipped"
            /\ pc = "camera" => (~safeMode /\ bootAttempts = 1)
            /\ pc = "loop" => camInit = "ok")

C7_Witness ==
    /\ pc = "loop" /\ resetReason = ReasonRecovery
    /\ camInit = "ok" /\ cameraAvailable /\ ~safeMode /\ bootAttempts = 1

(* C8: once the environment is quiet (power stays on, no command arrives,  *)
(* initCamera() succeeds whenever it is called), the device eventually     *)
(* runs a session that is not in safe mode and has the camera available.   *)
NormalSession == pc = "loop" /\ ~safeMode /\ cameraAvailable
C8_SafeModeNotPermanent == quiet ~> NormalSession

C8_Witness ==
    /\ quiet /\ quietInSafeMode /\ NormalSession
    /\ resetReason = ReasonRecovery /\ loadedAttempts = 0

(* C9: a loop pass that finds bootAttempts > 0 and at least                *)
(* BOOT_SUCCESS_TIMEOUT of uptime calls markBootSuccess() from the uptime  *)
(* check, and only such a pass does; the uptime check calls it at most     *)
(* once per session, and as long as bootAttempts > 0 the persisted count   *)
(* is this boot's incremented value.                                       *)
UptimeDue == bootAttempts > 0 /\ now' - bootStartTime >= BOOT_SUCCESS_TIMEOUT
C9_UptimeMarksSuccessOnce ==
    /\ [](uptimeMarks <= 1)
    /\ []((pc = "loop" /\ bootAttempts > 0) =>
            /\ uptimeMarks = 0
            /\ bootAttempts = CountedAttempts
            /\ nvBootAttempts = CountedAttempts)
    /\ [][LoopPass =>
            /\ UptimeDue => (uptimeMarks' = uptimeMarks + 1 /\ marked')
            /\ ~UptimeDue => uptimeMarks' = uptimeMarks]_vars

C9_Witness ==
    /\ pc = "loop" /\ uptimeMarks = 1 /\ bootAttempts = 0
    /\ nvBootAttempts = 0 /\ now - bootStartTime >= BOOT_SUCCESS_TIMEOUT

(* C10: a boot that is not in safe mode and whose initCamera() fails ends  *)
(* in a restart with reason "Camera init failed", with the persisted count *)
(* already holding this boot's attempt; the main loop is never reached     *)
(* after a failed initCamera(), and outside safe mode it runs with the     *)
(* camera available.                                                       *)
C10_CameraFailureReboots ==
    /\ camInit = "failed" =>
          /\ pc = "boot" /\ resetReason = ReasonCamera
          /\ ~loadedSafeMode
          /\ nvBootAttempts = CountedAttempts
    /\ (pc = "boot" /\ resetReason = ReasonCamera) => camInit = "failed"
    /\ pc = "loop" => camInit \in {"ok", "skipped"}
    /\ (pc = "loop" /\ ~safeMode) => cameraAvailable

C10_Witness ==
    /\ pc = "boot" /\ resetReason = ReasonCamera /\ camInit = "failed"
    /\ nvBootAttempts = 2

----------------------------------------------------------------------------
(* Shorthands for the properties of the control loop. *)
PassDone == pc = "loop" /\ passes > 0
PassReturns == pc = "loop" /\ pc' = "loop" /\ passes' = passes + 1
Triggered(reason) ==
    Cardinality({i \in 1..Len(photos) : photos[i].reason = reason})
LiveStreams ==
    [isStreaming : {TRUE}, streamStartedMs : {now}, lastPhotoMs : {0, now}]

(* C11: in every state of a session in safe mode cameraAvailable is false   *)
(* and the handler that led to the state invoked no capture or upload:     *)
(* setup took no boot snapshot, the serial and IoT snapshot commands took  *)
(* no photo, the schedule gate was not evaluated (it took no photo and     *)
(* left its timestamps and its previous-presence flag as they were), and   *)
(* a live-photo stream gets no frame on the next pass.                     *)
C11_SafeModeTakesNoPhoto ==
    [][(safeMode' /\ pc' \in {"camera", "loop"}) =>
          /\ ~cameraAvailable'
          /\ photos' = <<>>
          /\ pc = "loop" =>
                UNCHANGED <<lastPhotoTime, lastHourlyPhotoTime, lastCatPresent>>
          /\ \A live \in LiveStreams', d \in PhotoEnv.deltas :
                ~LivePhotoTakesFrame(Cur, live, now + d)']_vars

(* A pass of a session that the safemode command put in safe mode after    *)
(* its camera had been initialised, at a time when a scheduled photo is    *)
(* due.                                                                    *)
C11_Witness ==
    /\ PassDone /\ safeMode /\ manualSafe /\ camInit = "ok"
    /\ Sub32(now, lastHourlyPhotoTime) >= PHOTO_HOURLY_INTERVAL

(* What heater control reads and writes. *)
HeaterView(s) ==
    <<s.catPresent, s.lastMotionDetected, s.currentTemp, s.dhtSensorWorking,
      s.lastDHTRead, s.blanketOn, s.blanketManualOverride, s.lastBlanketChange,
      s.effectiveTemp, s.shouldBeOn>>

(* The state of a normal-mode session with an initialised camera whose     *)
(* control-loop state is the present one.                                  *)
NormalTwin ==
    [Cur EXCEPT !.safeMode = FALSE, !.cameraAvailable = TRUE,
                !.lastSafeModeRecoveryAttempt = 0]

(* C12: safe mode does not change heater control. From every state of a    *)
(* safe-mode session and for every motion, temperature, clock and blanket  *)
(* command input, a loop pass that does not end in the recovery reboot     *)
(* updates presence from the PIR pin, samples the temperature, decides     *)
(* the relay, and leaves presence, temperature and relay exactly as the    *)
(* pass with the same inputs leaves them in a normal-mode session with the *)
(* same control-loop state; both kinds of session start from the same      *)
(* control-loop state, so the relay follows the same sequence of states.   *)
C12_SafeModeKeepsHeaterControl ==
    (pc = "loop" /\ safeMode) =>
      \A in \in Inputs(HeaterEnv), d \in HeaterEnv.deltas :
        LET t == now + d
            safe == loop(Cur, t, in)
            normal == loop(NormalTwin, t, in)
        IN  safe.restart = Running =>
              /\ normal.restart = Running
              /\ HeaterView(safe) = HeaterView(normal)
              /\ in.motion => safe.catPresent /\ safe.lastMotionDetected = t
              /\ safe.lastDHTRead = t /\ safe.currentTemp = in.reading.temp
              /\ ~safe.blanketManualOverride /\ Sub32(t, lastBlanketChange) >=
                                                   BLANKET_MIN_STATE_TIME
                    => safe.blanketOn = (safe.catPresent /\
                                           safe.currentTemp < TEMP_COLD_THRESHOLD)

(* A safe-mode session in which the automatic control has turned the       *)
(* relay on.                                                               *)
C12_Witness ==
    PassDone /\ safeMode /\ blanketOn /\ ~blanketManualOverride

(* Presence as the specification states it: a pulse has been seen in this *)
(* session and less than the timeout has elapsed since the most recent.   *)
RecentPulse == lastPulse # 0 /\ Sub32(now, lastPulse) < presenceTimeout

C14_EffectiveTemperature ==
    PassDone =>
      IF dhtSensorWorking /\ currentTemp >= TEMP_MIN_REASONABLE
                          /\ currentTemp <= TEMP_MAX_REASONABLE
      THEN effectiveTemp = currentTemp
      ELSE /\ clock.synced => effectiveTemp = WINTER_TEMP_TABLE[clock.hour + 1]
           /\ ~clock.synced => effectiveTemp = WINTER_TEMP_TABLE[3 + 1]
           /\ dhtSensorWorking => effectiveTemp # currentTemp

(* An implausible reading in the last hour of the day. *)
C14_Witness ==
    /\ PassDone /\ dhtSensorWorking
    /\ currentTemp = TEMP_MAX_REASONABLE + 1
    /\ clock = WallClock(TRUE, 23)
    /\ effectiveTemp = WINTER_TEMP_TABLE[24]

(* C15: whenever the fallback temperature is in effect (the sensor failed  *)
(* or its reading is implausible, with or without wall-clock time) the     *)
(* desired heater state equals presence, and every entry of the fallback   *)
(* table is below TEMP_COLD_THRESHOLD.                                     *)
C15_FallbackFollowsPresence ==
    /\ \A h \in Hours : WINTER_TEMP_TABLE[h + 1] < TEMP_COLD_THRESHOLD
    /\ (PassDone /\ (~dhtSensorWorking \/ currentTemp > TEMP_MAX_REASONABLE
                                       \/ currentTemp < TEMP_MIN_REASONABLE))
          => shouldBeOn = catPresent

(* The sensor has failed, an animal is present at the warmest hour of the  *)
(* table, and the heater is wanted on.                                     *)
C15_Witness ==
    /\ PassDone /\ ~dhtSensorWorking /\ catPresent /\ shouldBeOn
    /\ clock = WallClock(TRUE, 13)

(* A loop pass that returns with the heater in automatic mode: it has run  *)
(* updateBlanketControl() past the override test.                          *)
AutomaticPass == PassReturns /\ ~blanketManualOverride'

C17_MinimumDwell ==
    [][(AutomaticPass /\ blanketOn' # blanketOn) =>
          Sub32(now', lastBlanketChange) >= BLANKET_MIN_STATE_TIME]_vars

(* The relay is turned off by automatic control two dwell times after      *)
(* boot: it was on, and the desired state has been changing on ticks       *)
(* closer than the dwell time.                                             *)
C17_Witness ==
    /\ PassDone /\ ~blanketManualOverride /\ ~blanketOn
    /\ lastBlanketChange = now
    /\ now = SetupDelay + 4 * HeaterTick
    /\ passes = 4

(* What a manual override asks of the state s that a loop pass with the    *)
(* serial command cmd leaves: blanket on / blanket off have put the relay  *)
(* in the requested state and set the override; with the override set      *)
(* before the pass, a pass without a command has left the relay as it      *)
(* was, and the override is still set unless the command was blanket auto. *)
OverrideObeyed(cmd, s) ==
    /\ cmd = "blanket on" => s.blanketOn /\ s.blanketManualOverride
    /\ cmd = "blanket off" => ~s.blanketOn /\ s.blanketManualOverride
    /\ blanketManualOverride =>
          /\ cmd = "" => s.blanketOn = blanketOn
          /\ cmd # "blanket auto" => s.blanketManualOverride

(* C18 as stated: a blanket on / blanket off command puts the relay in the *)
(* requested state at once, whatever the time since the last change;       *)
(* while the override is set no loop tick changes the relay, whatever      *)
(* presence and temperature do; and the override ends only by the          *)
(* blanket auto command: no tick of a session under override ends the      *)
(* session.                                                                *)
C18_OverrideUntilCleared ==
    pc = "loop" =>
      \A in \in Inputs(HeaterEnv), d \in HeaterEnv.deltas :
        LET s == loop(Cur, now + d, in)
        IN  /\ s.restart = Running => OverrideObeyed(in.cmd, s)
            /\ blanketManualOverride => s.restart = Running

(* C18, amended: the same as long as the device does not restart. The     *)
(* override is a flag in RAM: the tick that makes the safe-mode recovery   *)
(* reboot restarts the device before it reads the command, the relay goes  *)
(* off and the next session is under automatic control.                    *)
C18_OverrideUntilClearedOrRestart ==
    pc = "loop" =>
      \A in \in Inputs(HeaterEnv), d \in HeaterEnv.deltas :
        LET s == loop(Cur, now + d, in)
        IN  /\ s.restart = Running => OverrideObeyed(in.cmd, s)
            /\ s.restart # Running => safeMode /\ s.restart = ReasonRecovery

(* The override has turned the relay on at a time when automatic control   *)
(* could not have changed it, and an animal is absent.                     *)
C18_Witness ==
    /\ PassDone /\ blanketManualOverride /\ blanketOn /\ ~catPresent
    /\ lastBlanketChange < BLANKET_MIN_STATE_TIME
    /\ now > lastBlanketChange

(* A loop pass that returns with the camera available: it has evaluated    *)
(* the schedule gate, on the timestamps the state before the pass holds.   *)
GatePass == PassReturns /\ cameraAvailable'
PeriodicWasDue == Sub32(now', lastHourlyPhotoTime) >= PHOTO_HOURLY_INTERVAL

C20_MotionCaptureOnPresenceEdge ==
    [][(GatePass /\ ~PeriodicWasDue) =>
          /\ Triggered(PhotoMotion)' = 1 <=>
                /\ catPresent' /\ ~catPresent
                /\ Sub32(now', lastPhotoTime) >= PHOTO_MOTION_COOLDOWN
          /\ Triggered(PhotoMotion)' \in {0, 1}
          /\ Triggered(PhotoMotion)' = 1 =>
                /\ lastPhotoTime' = now'
                /\ lastHourlyPhotoTime' = lastHourlyPhotoTime]_vars

(* C21: the first automatic actuation decision after boot is applied at    *)
(* once: if the desired state of the first decision differs from the       *)
(* initial relay state the relay changes on that tick, without waiting     *)
(* for BLANKET_MIN_STATE_TIME.                                             *)
C21_FirstDecisionImmediate ==
    [][(AutomaticPass /\ passes = 0) => blanketOn' = shouldBeOn']_vars

(* C22: a tick that reads the PIR pin high leaves present true and         *)
(* lastMotionDetected = now, whatever the state before it and whatever     *)
(* the presence timeout is: there is no debounce, and the timeout is not   *)
(* applied on such a tick.                                                 *)
C22_PulseSetsPresence ==
    [][(PassReturns /\ lastPulse' = now') =>
          (catPresent' /\ lastMotionDetected' = now')]_vars

(* A pulse on the second pass of a session in a build with a presence     *)
(* timeout of 0.                                                           *)
C22_Witness ==
    /\ PassDone /\ presenceTimeout = 0 /\ passes = 2
    /\ lastPulse = now /\ catPresent /\ lastMotionDetected = now

(* C23: in automatic mode, on a tick whose desired state differs from the  *)
(* relay state, the relay keeps its state if less than                     *)
(* BLANKET_MIN_STATE_TIME has elapsed since the last relay change of the   *)
(* session, and is set to the desired state if that time has elapsed: so   *)
(* a desired state that stays different changes the relay at the first     *)
(* tick at which the time has elapsed.                                     *)
C23_SuppressedUntilDwell ==
    [][(AutomaticPass /\ lastBlanketChange # 0 /\ shouldBeOn' # blanketOn) =>
          IF Sub32(now', lastBlanketChange) < BLANKET_MIN_STATE_TIME
          THEN blanketOn' = blanketOn /\ lastBlanketChange' = lastBlanketChange
          ELSE blanketOn' = shouldBeOn' /\ lastBlanketChange' = now']_vars

(* The relay is on, the desired state has become off, and the change is    *)
(* held back because the relay changed less than the dwell time ago.       *)
C23_Witness ==
    /\ PassDone /\ ~blanketManualOverride /\ blanketOn /\ ~shouldBeOn
    /\ lastBlanketChange # 0
    /\ Sub32(now, lastBlanketChange) < BLANKET_MIN_STATE_TIME
    /\ Sub32(now, lastBlanketChange) > 0

(* Samples and times to the next call with which readDHT22() is tried      *)
(* from every state: a not-a-number in either channel, in both, in none,   *)
(* with values the state does not hold; calls before, at and after         *)
(* DHT_READ_INTERVAL.                                                      *)
SensorSamples ==
    {Sample(tempOk, TEMP_COLD_THRESHOLD + 1, humOk, 600) :
        tempOk \in BOOLEAN, humOk \in BOOLEAN}
SensorDeltas == {1, DHT_READ_INTERVAL - 1, DHT_READ_INTERVAL, TickUnit}
Logged(s, msg) == Cardinality({i \in 1..Len(s.log) : s.log[i] = msg})

(* C24: a call of readDHT22() less than DHT_READ_INTERVAL after the last    *)
(* sample does nothing. A sample with not-a-number in either channel       *)
(* marks the sensor unhealthy and leaves the stored temperature and        *)
(* humidity as they were; a valid sample marks it healthy and stores both  *)
(* values. The failure message is printed once, by the sample that finds   *)
(* the healthy sensor failed, and the recovery message once, by the first  *)
(* valid sample of the unhealthy sensor.                                   *)
C24_SensorSampling ==
    pc = "loop" =>
      \A r \in SensorSamples, d \in SensorDeltas :
        LET t == now + d
            s == readDHT22(Cur, t, r)
            bad == r.tempNaN \/ r.humNaN
        IN  IF Sub32(t, lastDHTRead) < DHT_READ_INTERVAL
            THEN s = Cur
            ELSE /\ s.lastDHTRead = t
                 /\ s.dhtSensorWorking = ~bad
                 /\ s.currentTemp = IF bad THEN currentTemp ELSE r.temp
                 /\ s.currentHumidity =
                      IF bad THEN currentHumidity ELSE r.humidity
                 /\ Logged(s, MsgDhtFailure) =
                      IF bad /\ dhtSensorWorking THEN 1 ELSE 0
                 /\ Logged(s, MsgDhtRecovered) =
                      IF ~bad /\ ~dhtSensorWorking THEN 1 ELSE 0

(* A failed sample on the second pass: the sensor is unhealthy and the     *)
(* values of the first pass are still stored.                              *)
C24_Witness ==
    /\ PassDone /\ passes = 2 /\ ~dhtSensorWorking /\ lastDHTRead = now
    /\ currentTemp = TEMP_MAX_REASONABLE /\ currentHumidity = 500

(* C25: when the wall clock is not synced, whatever the hour is, the       *)
(* fallback temperature is an entry of the table that no entry of the 24   *)
(* is below, and that is the effective temperature of a pass that falls    *)
(* back without wall-clock time.                                           *)
C25_ColdestEntryWithoutClock ==
    /\ \A h \in Hours :
         LET x == getExpectedTemperature(WallClock(FALSE, h))
         IN  /\ \E k \in Hours : x = WINTER_TEMP_TABLE[k + 1]
             /\ \A k \in Hours : x <= WINTER_TEMP_TABLE[k + 1]
    /\ (PassDone /\ ~clock.synced /\ ~dhtSensorWorking) =>
          \A k \in Hours : effectiveTemp <= WINTER_TEMP_TABLE[k + 1]

(* The sensor has failed while the clock is not synced and an animal is    *)
(* present: the entry of hour 3 is in effect.                              *)
C25_Witness ==
    /\ PassDone /\ ~clock.synced /\ ~dhtSensorWorking /\ catPresent
    /\ effectiveTemp = WINTER_TEMP_TABLE[3 + 1]

(* The captures the schedule gate has triggered in the last pass. *)
GateTriggers == Triggered(PhotoScheduled) + Triggered(PhotoMotion)

(* C26: the schedule gate calls the capture at most once per tick,         *)
(* whether the capture succeeds or not; the tick that triggers has set     *)
(* the last-capture timestamp to now whatever the result; and a tick       *)
(* inside the motion cooldown of that timestamp and before the next        *)
(* periodic boundary triggers nothing, so a failed capture waits for the   *)
(* next scheduling opportunity.                                            *)
C26_FailedCaptureNotRetried ==
    [][GatePass =>
          /\ GateTriggers' <= 1
          /\ GateTriggers' = 1 => lastPhotoTime' = now'
          /\ (~PeriodicWasDue /\
                Sub32(now', lastPhotoTime) < PHOTO_MOTION_COOLDOWN)
               => GateTriggers' = 0]_vars

(* A motion capture that failed: the gate has triggered it once and has    *)
(* advanced the last-capture timestamp.                                    *)
C26_Witness ==
    /\ PassDone /\ cameraAvailable
    /\ photos = <<[reason |-> PhotoMotion, taken |-> FALSE]>>
    /\ lastPhotoTime = now /\ lastHourlyPhotoTime # now

(* C27 as stated, for its last step: the safe-mode recovery check is the   *)
(* last step of a loop iteration, so on the tick where the recovery        *)
(* reboot fires the presence and temperature steps of that tick have run   *)
(* (a pulse of that tick has been recorded, the sensor has been sampled).  *)
C27_RecoveryCheckLast ==
    pc = "loop" =>
      \A in \in Inputs(HeaterEnv), d \in HeaterEnv.deltas :
        LET t == now + d
            s == loop(Cur, t, in)
        IN  s.restart = ReasonRecovery =>
              /\ in.motion => s.catPresent /\ s.lastMotionDetected = t
              /\ s.lastDHTRead = t

(* C27, amended: within one loop iteration the steps run in the order      *)
(* uptime self-heal check, safe-mode recovery check, serial commands,      *)
(* presence update, temperature sample, actuator decision, schedule gate.  *)
(* On the tick where the recovery reboot fires the uptime check has run    *)
(* and no later step has: presence, temperature and relay are as the tick  *)
(* found them. On a tick that returns the actuator decides on the          *)
(* presence and the sample of the same tick, and the gate sees the         *)
(* presence of the same tick.                                              *)
C27_RecoveryCheckSecond ==
    pc = "loop" =>
      \A in \in Inputs(HeaterEnv), d \in HeaterEnv.deltas :
        LET t == now + d
            s == loop(Cur, t, in)
        IN  /\ s.restart = ReasonRecovery =>
                 /\ HeaterView(s) = HeaterView(Cur)
                 /\ s.photos = <<>>
                 /\ LET first == IF UptimeReached(Cur, t)
                                  THEN <<MsgBootSuccessful, MsgRecovery>>
                                  ELSE <<MsgRecovery>>
                    IN  SubSeq(s.log, 1, Len(first)) = first
            /\ (s.restart = Running /\ ~s.blanketManualOverride) =>
                 /\ in.motion => s.catPresent
                 /\ s.effectiveTemp = in.reading.temp
                 /\ s.shouldBeOn = (s.catPresent /\ IsCold(s.effectiveTemp))
            /\ (s.restart = Running /\ s.cameraAvailable /\ in.motion
                  /\ ~catPresent /\ ~lastCatPresent
                  /\ ~PeriodicDue(Cur, t) /\ CooldownExpired(Cur, t))
                 => \E i \in 1..Len(s.photos) : s.photos[i].reason = PhotoMotion

(* The recovery reboot has fired from a safe-mode session in which the     *)
(* relay was on: the session has ended with the boot state cleared.        *)
C27_Witness ==
    /\ pc = "boot" /\ resetReason = ReasonRecovery
    /\ nvBootAttempts = 0 /\ ~nvSafeMode
    /\ now > SAFE_MODE_RECOVERY_INTERVAL

(* C28: CanRetry() returns true on the first call after the construction   *)
(* or a Reset(); the k-th call since then that returns true sets the delay *)
(* to min(maxDelay, minDelay * 2^(k-1)); a call returns false, and then    *)
(* changes nothing but the delayed counter, exactly when less than the     *)
(* current delay has passed since the last call that returned true. It is  *)
(* stated for the call made next, after any of the times in RetryProbes.   *)
RetryProbes ==
    RetryDeltas \cup {0, retry.currentDelay, Max(retry.currentDelay, 1) - 1}
C28_BackOffSchedule ==
    \A d \in RetryProbes :
      LET t == Add32(millis, d)
          r == CanRetry(retry, t)
          k == timerObs.trues + 1
      IN  /\ (timerObs.trues = 0 /\ timerObs.falses = 0) => RetryAllowed(retry, t)
          /\ RetryAllowed(retry, t) =>
               r.currentDelay = Min(retry.maxDelay, retry.minDelay * 2^(k - 1))
          /\ ~RetryAllowed(retry, t) <=> timerObs.sinceAllowed + d < retry.currentDelay
          /\ ~RetryAllowed(retry, t) => r = [retry EXCEPT !.delayedCount = @ + 1]

(* C29: Reset() sets the delay and the time of the last retry to zero,     *)
(* sets the allowed and the delayed counter to zero and adds 1 to the      *)
(* reset counter (the two delays of the constructor stay); between two     *)
(* resets the allowed counter is the number of CanRetry() calls that       *)
(* returned true and the delayed counter the number that returned false.   *)
C29_ResetAndCounters ==
    /\ retry.allowedCount = timerObs.trues
    /\ retry.delayedCount = timerObs.falses
    /\ LET r == Reset(retry)
       IN  /\ r.currentDelay = 0 /\ r.lastRetry = 0
           /\ r.allowedCount = 0 /\ r.delayedCount = 0
           /\ r.resetCount = retry.resetCount + 1
           /\ r.minDelay = retry.minDelay /\ r.maxDelay = retry.maxDelay
C29_Witness ==
    /\ retry.resetCount > 0
    /\ retry.allowedCount > 1
    /\ retry.delayedCount > 0

(* C30: a MarkAct() made within the cooldown of the previous one doubles   *)
(* the delay, capped at maxDelay and never below minAct; a MarkAct() made  *)
(* after the cooldown has passed resets the delay to minAct; after any     *)
(* MarkAct() the delay lies in minAct..maxDelay; CanAct() is false exactly *)
(* while less than the current delay has passed since the last MarkAct().  *)
(* It is stated for the call made next, after any of the times in          *)
(* ActProbes.                                                              *)
ActProbes ==
    ActDeltas \cup {0, cameraAction.currentDelay,
                    Max(cameraAction.currentDelay, 1) - 1}
C30_DebounceDelay ==
    \A d \in ActProbes :
      LET t == Add32(millis, d)
          a == MarkAct(cameraAction, t)
          gap == timerObs.sinceAct + d
          doubled == Max(a.minAct, Min(2 * cameraAction.currentDelay, a.maxDelay))
      IN  /\ gap <= a.cooldown => a.currentDelay = doubled
          /\ gap > a.cooldown => a.currentDelay = a.minAct
          /\ a.currentDelay \in a.minAct..a.maxDelay
          /\ ~CanAct(cameraAction, t) <=> gap < cameraAction.currentDelay

(* C31: MustAct() is true when MarkAct() was never called or when at least *)
(* maxAct (30 minutes) have passed since the last MarkAct(), and false     *)
(* otherwise. It is stated for the call made next, after any of the times  *)
(* in MustProbes.                                                          *)
MustProbes ==
    ActDeltas \cup {0, cameraAction.maxAct - 1, cameraAction.maxAct}
C31_MustActWithinMaxInterval ==
    \A d \in MustProbes :
      MustAct(cameraAction, Add32(millis, d))
        <=> (timerObs.marks = 0 \/ timerObs.sinceAct + d >= cameraAction.maxAct)

(* C32: every timeout decision depends only on the time that passed on the *)
(* 32-bit millisecond counter since the timestamp it is taken from, so it  *)
(* is the same when that timestamp and millis() are both moved by the same *)
(* amount k, across the wrap included: CanAct(), MustAct() and the         *)
(* cooldown test of MarkAct() after a MarkAct(), CanRetry() after an       *)
(* allowed attempt made now, and the dwell test of updateBlanketControl()  *)
(* (there with a k that stays below the wrap).                             *)
Shifts == {Units(60000), LongIdle}
ShiftAct(a, k) == [a EXCEPT !.lastAct = Add32(@, k)]
ShiftRetry(r, k) == [r EXCEPT !.lastRetry = Add32(@, k)]
C32_ElapsedTimeOnly ==
    \A k \in Shifts, d \in MustProbes :
      LET t == Add32(millis, d)
          tk == Add32(t, k)
          r == CanRetry(retry, millis)
          s == [Cur EXCEPT !.lastBlanketChange = MsPerUnit * k]
      IN  /\ timerObs.marks > 0 =>
                /\ CanAct(ShiftAct(cameraAction, k), tk) = CanAct(cameraAction, t)
                /\ MustAct(ShiftAct(cameraAction, k), tk) = MustAct(cameraAction, t)
                /\ MarkAct(ShiftAct(cameraAction, k), tk).currentDelay
                     = MarkAct(cameraAction, t).currentDelay
          /\ RetryAllowed(ShiftRetry(r, k), tk) = RetryAllowed(r, t)
          /\ k < LongIdle =>
               \A x \in {BLANKET_MIN_STATE_TIME - 1, BLANKET_MIN_STATE_TIME} :
                 DwellElapsed(s, MsPerUnit * k + x) = DwellElapsed(Cur, x)

(* C33: setup sets lastPhotoTime to millis() - PHOTO_MOTION_COOLDOWN - 1000 *)
(* (below 0 here: the value the unsigned subtraction wraps to), so while   *)
(* the gate has not moved that timestamp the cooldown test passes on       *)
(* every tick, also with less uptime than the cooldown, and a presence     *)
(* edge on a tick with the camera available and no periodic capture due    *)
(* triggers a motion capture.                                              *)
C33_FirstMotionPhotoImmediate ==
    /\ pc = "camera" => lastPhotoTime = now - PHOTO_MOTION_COOLDOWN - 1000
    /\ (pc = "loop" /\ lastPhotoTime = SetupDelay - PHOTO_MOTION_COOLDOWN - 1000) =>
         \A in \in Inputs(PhotoEnv), d \in PhotoEnv.deltas :
           LET t == now + d
               s == loop(Cur, t, in)
           IN  /\ CooldownExpired(Cur, t)
               /\ (s.restart = Running /\ s.cameraAvailable /\ ~PeriodicDue(Cur, t)
                     /\ s.catPresent /\ ~lastCatPresent)
                    => \E i \in 1..Len(s.photos) : s.photos[i].reason = PhotoMotion
C33_Witness ==
    /\ PassDone /\ passes = 1 /\ now < PHOTO_MOTION_COOLDOWN
    /\ Triggered(PhotoMotion) = 1
    /\ lastPhotoTime = now

(* C34: after the safemode command (the session runs in safe mode although *)
(* this boot initialised the camera) the camera stays disabled for the     *)
(* rest of the session and the persisted safe-mode flag stays set, so      *)
(* that a restart at any later time boots in safe mode.                    *)
C34_ManualSafeModePersists ==
    (pc = "loop" /\ safeMode /\ camInit = "ok") =>
        /\ ~cameraAvailable
        /\ nvSafeMode

(* C35: while Wi-Fi is not connected and no attempt is in flight, a call   *)
(* of connectWiFi() made once the longest back-off delay has passed        *)
(* starts a new attempt, whatever the scan finds then and however the      *)
(* attempt before ended; the state is Connecting only while an attempt is  *)
(* in flight.                                                              *)
C35_AttemptFollowsFailure ==
    (~wifi.connected /\ ~wifi.begun) =>
        /\ wifi.state # "Connecting"
        /\ \A scan \in Scans :
             LET t == Add32(millis, retry.maxDelay)
             IN  connectWiFi(wifi, retry, t, scan).retry.allowedCount
                   = retry.allowedCount + 1

C37_RelayFollowsFlag ==
    [][/\ \A on \in BOOLEAN :
            LET r == controlBlanket(Cur, on, now)
            IN  IF on = blanketOn THEN r = Cur
                ELSE r = [Cur EXCEPT !.blanketOn = on,
                                     !.relayPin = RelayLevel(on),
                                     !.lastBlanketChange = now]
       /\ pc' = "loop" =>
            /\ relayPin' = RelayLevel(blanketOn')
            /\ pc = "loop" /\ blanketOn' # blanketOn => lastBlanketChange' = now'
            /\ pc # "loop" => relayPin' = "LOW" /\ ~blanketOn']_vars

(* A pass of a later session has switched the blanket on: the relay is     *)
(* HIGH and the change is stamped with the time of the pass.               *)
C37_Witness ==
    /\ PassDone /\ blanketOn /\ relayPin = "HIGH"
    /\ lastBlanketChange = now /\ now > 0 /\ resetReason # ReasonPower

(* C38: a pass with the camera available that finds the animal present,    *)
(* the previous-presence flag false and the motion cooldown not expired    *)
(* triggers no scheduled or motion capture, leaves lastPhotoTime alone and *)
(* sets lastCatPresent; and while the animal stays present after the flag  *)
(* was set, no pass triggers a motion capture and the flag stays set,      *)
(* whatever time has gone by since the last capture.                       *)
C38_EdgeInCooldownConsumed ==
    [][PassReturns =>
          /\ (/\ cameraAvailable' /\ catPresent' /\ ~lastCatPresent
              /\ Sub32(now', lastPhotoTime) < PHOTO_MOTION_COOLDOWN) =>
                /\ Triggered(PhotoMotion)' = 0
                /\ Triggered(PhotoScheduled)' = 0
                /\ lastPhotoTime' = lastPhotoTime
                /\ lastCatPresent'
          /\ (catPresent /\ lastCatPresent /\ catPresent') =>
                /\ Triggered(PhotoMotion)' = 0
                /\ lastCatPresent']_vars

(* The last capture was a periodic one, the animal was seen inside the     *)
(* cooldown that followed it, and a pass after the cooldown has expired    *)
(* found it still present and triggered nothing.                           *)
C38_Witness ==
    /\ PassDone /\ cameraAvailable /\ catPresent /\ lastCatPresent
    /\ lastPhotoTime = lastHourlyPhotoTime
    /\ lastMotionDetected > lastPhotoTime
    /\ Sub32(lastMotionDetected, lastPhotoTime) < PHOTO_MOTION_COOLDOWN
    /\ now > lastMotionDetected
    /\ Sub32(now, lastPhotoTime) >= PHOTO_MOTION_COOLDOWN
    /\ photos = <<>>

(* C39 as stated: when the two sessions before a boot each ended before    *)
(* BOOT_SUCCESS_TIMEOUT of uptime, whatever ended them, the boot puts the  *)
(* device in safe mode.                                                    *)
C39_ShortSessionsEscalate ==
    (pc # "boot" /\ Len(sessions) = MAX_BOOT_ATTEMPTS - 1) => safeMode

(* C39, amended: when markBootSuccess() ran in neither of the two sessions *)
(* before a boot, the boot puts the device in safe mode; a session ended   *)
(* by a camera failure, a power loss or a reboot command before            *)
(* BOOT_SUCCESS_TIMEOUT of uptime is such a session unless the reset       *)
(* command ran in it; and a running session in which markBootSuccess() has *)
(* not run is below the timeout, with its boot counted in NVM.             *)
C39_UnmarkedSessionsEscalate ==
    /\ (/\ pc # "boot" /\ Len(sessions) = MAX_BOOT_ATTEMPTS - 1
        /\ \A i \in 1..Len(sessions) : ~sessions[i].marked) => safeMode
    /\ (pc = "loop" /\ ~marked) =>
          /\ Sub32(now, bootStartTime) < BOOT_SUCCESS_TIMEOUT
          /\ nvBootAttempts = loadedAttempts + 1

(* The third boot runs in safe mode after two sessions whose camera was    *)
(* initialised and which a reboot command ended before the timeout, one    *)
(* from each channel.                                                      *)
C39_Witness ==
    /\ pc = "loop" /\ safeMode /\ ~loadedSafeMode /\ camInit = "skipped"
    /\ Len(sessions) = MAX_BOOT_ATTEMPTS - 1
    /\ \A i \in 1..Len(sessions) :
          ~sessions[i].marked /\ sessions[i].cam = "ok"
    /\ {sessions[i].reason : i \in 1..Len(sessions)} = {ReasonManual, ReasonIot}

====
